---- MODULE Spec2Model ----
\* A model of package loquet (github.com/glycerine/loquet): the close latch
\* Chan[T] of src/loquet.go, with its signal channel, payload, version and
\* retained history, driven by callers, racing closers, waiters, polling
\* readers and scripted call sequences; the methods at the grain of the
\* mutex, with goroutines contending for it; ReadPast's copy as a function of the
\* history and the destination length; and the package's other latch types
\* (the two Loquet[T] and the Chan[T] with CloseWith and the resetting reads),
\* the last also with the log of a reader's and the other callers' calls.
\*
\* Every method body runs under the latch's mutex, so a call is one step
\* (SpecMutex takes the calls apart to check just that).
\* A run-time panic (fault) ends the program: no step follows it.
EXTENDS Integers, Sequences, FiniteSets, TLC

\* ---------------------------------------------------------------- bounds
MaxVal == 2
MaxVersion == 3
MaxHandles == 3
MaxRetain == 1
NClosers == 3
NWaiters == 2
MaxLog == 3

\* ------------------------------------------------------------ vocabulary
\* A payload is a *T: the nil pointer, or a pointer to one of MaxVal values.
Nil == 0
Payloads == 0..MaxVal
RetainArgs == (0 - 1)..MaxRetain
Closers == 1..NClosers
Waiters == 1..NWaiters

NoErr == "nil"
ErrAlreadyClosed == "the loquet.Chan is already closed."

NoFault == "none"
IndexOutOfRange == "index out of range [0] with length 0"
NegativeRetain == "retainVersions cannot be negative"
CloseOfClosed == "close of closed channel"
CloseOfNil == "close of nil channel"

VARIABLES
    variant,     \* which type of the package the latch is
    fault,       \* the run-time panic that ended the program, or NoFault
    whenClosed,  \* Chan.whenClosed: index into chans, 0 for a nil channel
    closeVal,    \* Chan.closeVal
    isClosed,    \* Chan.isClosed
    retain,      \* Chan.retain
    version,     \* Chan.version
    past,        \* Chan.past
    chans,       \* every channel made so far: TRUE once closed
    firedVer,    \* version at the close that fired the active channel
    last,        \* the most recent call and what it returned
    calls,       \* racing closers, readers: the latest call each has made
    pc,          \* waiters: "idle", "waiting" (in the receive), "woken"
    h,           \* waiters: the channel obtained from WhenClosed()
    obs,         \* scripted caller: the calls made so far, with results
    mut,         \* Chan.mut: the goroutine holding it, 0 when unlocked
    cur          \* goroutines inside a method: the call in progress

fieldVars == <<whenClosed, closeVal, isClosed, retain, version, past>>
latchVars == <<variant, fault, whenClosed, closeVal, isClosed, retain,
               version, past, chans, firedVer>>
vars == <<variant, fault, whenClosed, closeVal, isClosed, retain, version,
          past, chans, firedVer, last, calls, pc, h, obs, mut, cur>>

\* What a call is remembered as: its name, its payload argument, and the
\* values it returned (error, payload, closed flag, a number).
Call(op, arg, err, val, closed, n) ==
    [op |-> op, arg |-> arg, err |-> err, val |-> val, closed |-> closed, n |-> n]

NoCall == Call("-", Nil, "-", Nil, FALSE, 0)

\* --------------------------------------------------------- Go channels
\* make(chan struct{}): a new, open channel.
MakeChan(cs) == Append(cs, FALSE)

\* close(c): panics on a nil channel and on a closed channel.
CloseChanFault(cs, c) ==
    IF c = 0 THEN CloseOfNil
    ELSE IF cs[c] THEN CloseOfClosed
    ELSE NoFault

CloseChan(cs, c) ==
    IF CloseChanFault(cs, c) = NoFault THEN [cs EXCEPT ![c] = TRUE] ELSE cs

\* <-c completes only on a closed channel; a nil channel blocks for ever.
CanRecv(cs, c) == c # 0 /\ cs[c]

\* ------------------------------------------------------------- history
\* A history that is kept whatever f.retain is.
Record_Always(p, ver, cv) == Append(p, [Version |-> ver, Val |-> cv])

\* append(f.past, VersionVal{...}); drop the oldest when over f.retain.
Record(p, ver, cv) ==
    IF retain > 0
    THEN LET q == Append(p, [Version |-> ver, Val |-> cv])
         IN  IF Len(q) > retain THEN Tail(q) ELSE q
    ELSE p

\* copy(d, f.past) into a destination of length dlen.
CopyCount(dlen, p) == IF dlen < Len(p) THEN dlen ELSE Len(p)

\* ------------------------------------------------------- construction
\* NewChan that accepts a negative retainVersions.
NewChanFault_AllowsNegative(r) ==
    IF r > 0 THEN IndexOutOfRange ELSE NoFault

\* NewChan: past is made with length 0, then past[0] is assigned.
NewChanFault(r) ==
    IF r > 0 THEN IndexOutOfRange
    ELSE IF r < 0 THEN NegativeRetain
    ELSE NoFault

NewChan(cv, r) ==
    /\ variant = "Chan"
    /\ whenClosed = 1
    /\ chans = MakeChan(<<>>)
    /\ closeVal = cv
    /\ retain = r
    /\ version = 0
    /\ isClosed = FALSE
    /\ past = <<>>
    /\ fault = NewChanFault(r)
    /\ firedVer = 0
    /\ last = Call("NewChan", cv, NoErr, Nil, FALSE, r)

InitClients ==
    /\ calls = [c \in Closers |-> NoCall]
    /\ pc = [w \in Waiters |-> "idle"]
    /\ h = [w \in Waiters |-> 0]
    /\ obs = <<>>
    /\ mut = 0
    /\ cur = [w \in Waiters |-> NoCall]

Init ==
    /\ \E cv \in Payloads, r \in RetainArgs : NewChan(cv, r)
    /\ InitClients

\* A call can be made on a latch of type v while the program is running.
Live(v) == variant = v /\ fault = NoFault

\* ----------------------------------------------------- Chan operations
CloseRet == IF isClosed THEN ErrAlreadyClosed ELSE NoErr

\* Close that counts Close(nil) as a new version.
Close_NilBumps(cv) ==
    /\ Live("Chan")
    /\ IF isClosed
       THEN UNCHANGED latchVars
       ELSE /\ isClosed' = TRUE
            /\ version < MaxVersion
            /\ closeVal' = IF cv # Nil THEN cv ELSE closeVal
            /\ version' = version + 1
            /\ past' = Record(past, version + 1, closeVal')
            /\ chans' = CloseChan(chans, whenClosed)
            /\ fault' = CloseChanFault(chans, whenClosed)
            /\ firedVer' = version'
            /\ UNCHANGED <<variant, whenClosed, retain>>

\* Close that lets a later close message replace the first one.
Close_KeepsLast(cv) ==
    /\ Live("Chan")
    /\ IF isClosed
       THEN /\ closeVal' = IF cv # Nil THEN cv ELSE closeVal
            /\ UNCHANGED <<variant, fault, whenClosed, isClosed, retain,
                           version, past, chans, firedVer>>
       ELSE /\ isClosed' = TRUE
            /\ IF cv # Nil
               THEN /\ version < MaxVersion
                    /\ closeVal' = cv
                    /\ version' = version + 1
                    /\ past' = Record(past, version + 1, cv)
               ELSE UNCHANGED <<closeVal, version, past>>
            /\ chans' = CloseChan(chans, whenClosed)
            /\ fault' = CloseChanFault(chans, whenClosed)
            /\ firedVer' = version'
            /\ UNCHANGED <<variant, whenClosed, retain>>

\* Close that sets the flag and forgets close(f.whenClosed).
Close_NoSignal(cv) ==
    /\ Live("Chan")
    /\ IF isClosed
       THEN UNCHANGED latchVars
       ELSE /\ isClosed' = TRUE
            /\ IF cv # Nil
               THEN /\ version < MaxVersion
                    /\ closeVal' = cv
                    /\ version' = version + 1
                    /\ past' = Record(past, version + 1, cv)
               ELSE UNCHANGED <<closeVal, version, past>>
            /\ firedVer' = version'
            /\ UNCHANGED <<variant, fault, whenClosed, retain, chans>>

\* Close that stores its argument even when it is nil.
Close_NilOverwrites(cv) ==
    /\ Live("Chan")
    /\ IF isClosed
       THEN UNCHANGED latchVars
       ELSE /\ isClosed' = TRUE
            /\ closeVal' = cv
            /\ IF cv # Nil
               THEN /\ version < MaxVersion
                    /\ version' = version + 1
                    /\ past' = Record(past, version + 1, cv)
               ELSE UNCHANGED <<version, past>>
            /\ chans' = CloseChan(chans, whenClosed)
            /\ fault' = CloseChanFault(chans, whenClosed)
            /\ firedVer' = version'
            /\ UNCHANGED <<variant, whenClosed, retain>>

Close(cv) ==
    /\ Live("Chan")
    /\ IF isClosed
       THEN UNCHANGED latchVars
       ELSE /\ isClosed' = TRUE
            /\ IF cv # Nil
               THEN /\ version < MaxVersion
                    /\ closeVal' = cv
                    /\ version' = version + 1
                    /\ past' = Record(past, version + 1, cv)
               ELSE UNCHANGED <<closeVal, version, past>>
            /\ chans' = CloseChan(chans, whenClosed)
            /\ fault' = CloseChanFault(chans, whenClosed)
            /\ firedVer' = version'
            /\ UNCHANGED <<variant, whenClosed, retain>>

\* Set that leaves a closed latch alone, as SetIfOpen does.
Set_SkipsClosed(cv) ==
    /\ Live("Chan")
    /\ IF isClosed
       THEN UNCHANGED latchVars
       ELSE /\ version < MaxVersion
            /\ closeVal' = cv
            /\ version' = version + 1
            /\ past' = Record(past, version + 1, cv)
            /\ UNCHANGED <<variant, fault, whenClosed, isClosed, retain,
                           chans, firedVer>>

Set(cv) ==
    /\ Live("Chan")
    /\ version < MaxVersion
    /\ closeVal' = cv
    /\ version' = version + 1
    /\ past' = Record(past, version + 1, cv)
    /\ UNCHANGED <<variant, fault, whenClosed, isClosed, retain, chans, firedVer>>

\* SetIfOpen that forgets f.version++.
SetIfOpen_NoBump(cv) ==
    /\ Live("Chan")
    /\ IF isClosed
       THEN UNCHANGED latchVars
       ELSE /\ closeVal' = cv
            /\ UNCHANGED <<variant, fault, whenClosed, isClosed, retain,
                           version, past, chans, firedVer>>

\* SetIfOpen that stores the payload on a closed latch too, as Set does.
SetIfOpen_IgnoresClosed(cv) ==
    /\ Live("Chan")
    /\ version < MaxVersion
    /\ closeVal' = cv
    /\ version' = version + 1
    /\ past' = Record(past, version + 1, cv)
    /\ UNCHANGED <<variant, fault, whenClosed, isClosed, retain, chans, firedVer>>

SetIfOpen(cv) ==
    /\ Live("Chan")
    /\ IF isClosed
       THEN UNCHANGED latchVars
       ELSE /\ version < MaxVersion
            /\ closeVal' = cv
            /\ version' = version + 1
            /\ past' = Record(past, version + 1, cv)
            /\ UNCHANGED <<variant, fault, whenClosed, isClosed, retain,
                           chans, firedVer>>

Read ==
    /\ Live("Chan")
    /\ UNCHANGED latchVars

ReadVersion ==
    /\ Live("Chan")
    /\ UNCHANGED latchVars

ReadPast ==
    /\ Live("Chan")
    /\ UNCHANGED latchVars

WhenClosed ==
    /\ Live("Chan")
    /\ UNCHANGED latchVars

\* ReOpen that installs a new channel on an open latch too.
ReOpen_ReplacesOpen(cv) ==
    /\ Live("Chan")
    /\ version < MaxVersion
    /\ Len(chans) < MaxHandles
    /\ closeVal' = cv
    /\ version' = version + 1
    /\ past' = Record(past, version + 1, cv)
    /\ isClosed' = FALSE
    /\ chans' = MakeChan(chans)
    /\ whenClosed' = Len(chans) + 1
    /\ firedVer' = 0
    /\ UNCHANGED <<variant, fault, retain>>

\* ReOpen that forgets f.version++.
ReOpen_NoBump(cv) ==
    /\ Live("Chan")
    /\ version < MaxVersion
    /\ closeVal' = cv
    /\ past' = Record(past, version, cv)
    /\ IF ~isClosed
       THEN UNCHANGED <<isClosed, whenClosed, chans, firedVer>>
       ELSE /\ Len(chans) < MaxHandles
            /\ isClosed' = FALSE
            /\ chans' = MakeChan(chans)
            /\ whenClosed' = Len(chans) + 1
            /\ firedVer' = 0
    /\ UNCHANGED <<variant, fault, retain, version>>

\* ReOpen that clears the flag and keeps the old channel.
ReOpen_SameChannel(cv) ==
    /\ Live("Chan")
    /\ version < MaxVersion
    /\ closeVal' = cv
    /\ version' = version + 1
    /\ past' = Record(past, version + 1, cv)
    /\ isClosed' = FALSE
    /\ firedVer' = 0
    /\ UNCHANGED <<variant, fault, retain, whenClosed, chans>>

ReOpen(cv) ==
    /\ Live("Chan")
    /\ version < MaxVersion
    /\ closeVal' = cv
    /\ version' = version + 1
    /\ past' = Record(past, version + 1, cv)
    /\ IF ~isClosed
       THEN UNCHANGED <<isClosed, whenClosed, chans, firedVer>>
       ELSE /\ Len(chans) < MaxHandles
            /\ isClosed' = FALSE
            /\ chans' = MakeChan(chans)
            /\ whenClosed' = Len(chans) + 1
            /\ firedVer' = 0
    /\ UNCHANGED <<variant, fault, retain>>

\* Open that installs a new channel on an open latch too.
Open_ReplacesOpen ==
    /\ Live("Chan")
    /\ Len(chans) < MaxHandles
    /\ isClosed' = FALSE
    /\ chans' = MakeChan(chans)
    /\ whenClosed' = Len(chans) + 1
    /\ firedVer' = 0
    /\ UNCHANGED <<variant, fault, closeVal, retain, version, past>>

\* Open that clears the flag and keeps the old channel.
Open_SameChannel ==
    /\ Live("Chan")
    /\ IF ~isClosed
       THEN UNCHANGED latchVars
       ELSE /\ isClosed' = FALSE
            /\ firedVer' = 0
            /\ UNCHANGED <<variant, fault, closeVal, retain, version, past,
                           whenClosed, chans>>

\* Open that counts as a new version, as ReOpen does.
Open_Bumps ==
    /\ Live("Chan")
    /\ IF ~isClosed
       THEN UNCHANGED latchVars
       ELSE /\ Len(chans) < MaxHandles
            /\ version < MaxVersion
            /\ isClosed' = FALSE
            /\ chans' = MakeChan(chans)
            /\ whenClosed' = Len(chans) + 1
            /\ firedVer' = 0
            /\ version' = version + 1
            /\ UNCHANGED <<variant, fault, closeVal, retain, past>>

Open ==
    /\ Live("Chan")
    /\ IF ~isClosed
       THEN UNCHANGED latchVars
       ELSE /\ Len(chans) < MaxHandles
            /\ isClosed' = FALSE
            /\ chans' = MakeChan(chans)
            /\ whenClosed' = Len(chans) + 1
            /\ firedVer' = 0
            /\ UNCHANGED <<variant, fault, closeVal, retain, version, past>>

\* SetAndClose that closes the channel and forgets f.isClosed = true.
SetAndClose_NoFlag(cv) ==
    /\ Live("Chan")
    /\ IF isClosed
       THEN UNCHANGED latchVars
       ELSE /\ version < MaxVersion
            /\ closeVal' = cv
            /\ version' = version + 1
            /\ past' = Record(past, version + 1, cv)
            /\ chans' = CloseChan(chans, whenClosed)
            /\ fault' = CloseChanFault(chans, whenClosed)
            /\ firedVer' = version'
            /\ UNCHANGED <<variant, whenClosed, retain, isClosed>>

SetAndClose(cv) ==
    /\ Live("Chan")
    /\ IF isClosed
       THEN UNCHANGED latchVars
       ELSE /\ version < MaxVersion
            /\ closeVal' = cv
            /\ version' = version + 1
            /\ past' = Record(past, version + 1, cv)
            /\ isClosed' = TRUE
            /\ chans' = CloseChan(chans, whenClosed)
            /\ fault' = CloseChanFault(chans, whenClosed)
            /\ firedVer' = version'
            /\ UNCHANGED <<variant, whenClosed, retain>>

\* ------------------------------------------------------------- callers
\* Any goroutine calling any operation; every method body runs under f.mut,
\* so a call is one step.
clientVars == <<calls, pc, h, obs, mut, cur>>

CallClose ==
    \E cv \in Payloads :
        /\ Close(cv)
        /\ last' = Call("Close", cv, CloseRet, Nil, FALSE, 0)
        /\ UNCHANGED clientVars

CallSetAndClose ==
    \E cv \in Payloads :
        /\ SetAndClose(cv)
        /\ last' = Call("SetAndClose", cv, CloseRet, Nil, FALSE, 0)
        /\ UNCHANGED clientVars

CallSet ==
    \E cv \in Payloads :
        /\ Set(cv)
        /\ last' = Call("Set", cv, "-", closeVal, FALSE, 0)
        /\ UNCHANGED clientVars

CallSetIfOpen ==
    \E cv \in Payloads :
        /\ SetIfOpen(cv)
        /\ last' = Call("SetIfOpen", cv, "-", closeVal, FALSE, 0)
        /\ UNCHANGED clientVars

CallRead ==
    /\ Read
    /\ last' = Call("Read", Nil, "-", closeVal, isClosed, 0)
    /\ UNCHANGED clientVars

CallReadVersion ==
    /\ ReadVersion
    /\ last' = Call("ReadVersion", Nil, "-", closeVal, isClosed, version)
    /\ UNCHANGED clientVars

CallReadPast ==
    \E dlen \in 0..(MaxRetain + 1) :
        /\ ReadPast
        /\ last' = Call("ReadPast", dlen, "-", Nil, FALSE, CopyCount(dlen, past))
        /\ UNCHANGED clientVars

CallWhenClosed ==
    /\ WhenClosed
    /\ last' = Call("WhenClosed", Nil, "-", Nil, CanRecv(chans, whenClosed), whenClosed)
    /\ UNCHANGED clientVars

CallReOpen ==
    \E cv \in Payloads :
        /\ ReOpen(cv)
        /\ last' = Call("ReOpen", cv, "-", Nil, FALSE, 0)
        /\ UNCHANGED clientVars

CallOpen ==
    /\ Open
    /\ last' = Call("Open", Nil, "-", Nil, FALSE, 0)
    /\ UNCHANGED clientVars

Next ==
    \/ CallClose
    \/ CallSetAndClose
    \/ CallSetIfOpen
    \/ CallSet
    \/ CallRead
    \/ CallReadVersion
    \/ CallReadPast
    \/ CallWhenClosed
    \/ CallReOpen
    \/ CallOpen

Spec == Init /\ [][Next]_vars

\* ------------------------------------------------------ racing closers
\* NClosers goroutines, each making one close-family call on the same latch
\* (a commit path and deferred cancel paths).
RaceClose(c) ==
    \E cv \in Payloads :
        /\ calls[c].op = "-"
        /\ Close(cv)
        /\ calls' = [calls EXCEPT ![c] = Call("Close", cv, CloseRet, Nil, FALSE, 0)]
        /\ UNCHANGED <<last, pc, h, obs, mut, cur>>

RaceSetAndClose(c) ==
    \E cv \in Payloads :
        /\ calls[c].op = "-"
        /\ SetAndClose(cv)
        /\ calls' = [calls EXCEPT ![c] = Call("SetAndClose", cv, CloseRet, Nil, FALSE, 0)]
        /\ UNCHANGED <<last, pc, h, obs, mut, cur>>

NextRace ==
    \/ \E c \in Closers : RaceClose(c)
    \/ \E c \in Closers : RaceSetAndClose(c)

SpecRace == Init /\ [][NextRace]_vars

\* -------------------------------------------------------------- waiters
\* select { case <-f.WhenClosed(): val, isClosed := f.Read() }: fetch the
\* channel, block in the receive, then read.
Fetch(w) ==
    /\ pc[w] = "idle"
    /\ WhenClosed
    /\ h' = [h EXCEPT ![w] = whenClosed]
    /\ pc' = [pc EXCEPT ![w] = "waiting"]
    /\ UNCHANGED <<last, calls, obs, mut, cur>>

Recv(w) ==
    /\ pc[w] = "waiting"
    /\ fault = NoFault
    /\ CanRecv(chans, h[w])
    /\ pc' = [pc EXCEPT ![w] = "woken"]
    /\ UNCHANGED <<latchVars, last, calls, h, obs, mut, cur>>

WaiterRead(w) ==
    /\ pc[w] = "woken"
    /\ Read
    /\ last' = Call("Read", Nil, "-", closeVal, isClosed, h[w])
    /\ pc' = [pc EXCEPT ![w] = "idle"]
    /\ h' = [h EXCEPT ![w] = 0]
    /\ UNCHANGED <<calls, obs, mut, cur>>

\* The other goroutines, whose calls change the latch while waiters wait.
OtherClose == \E cv \in Payloads : Close(cv) /\ UNCHANGED <<last, clientVars>>

OtherSetAndClose == \E cv \in Payloads : SetAndClose(cv) /\ UNCHANGED <<last, clientVars>>

OtherSet == \E cv \in Payloads : Set(cv) /\ UNCHANGED <<last, clientVars>>

OtherSetIfOpen == \E cv \in Payloads : SetIfOpen(cv) /\ UNCHANGED <<last, clientVars>>

OtherReOpen == \E cv \in Payloads : ReOpen(cv) /\ UNCHANGED <<last, clientVars>>

OtherOpen == Open /\ UNCHANGED <<last, clientVars>>

NextWait ==
    \/ \E w \in Waiters : Fetch(w)
    \/ \E w \in Waiters : Recv(w)
    \/ \E w \in Waiters : WaiterRead(w)
    \/ OtherClose
    \/ OtherSetAndClose
    \/ OtherSetIfOpen
    \/ OtherSet
    \/ OtherReOpen
    \/ OtherOpen

SpecWait == Init /\ [][NextWait]_vars

\* Waiters that only wait: after the receive they go round the loop again
\* (for { select { case <-ch.WhenClosed(): ... } }).
Resume(w) ==
    /\ pc[w] = "woken"
    /\ fault = NoFault
    /\ pc' = [pc EXCEPT ![w] = "idle"]
    /\ h' = [h EXCEPT ![w] = 0]
    /\ UNCHANGED <<latchVars, last, calls, obs, mut, cur>>

NextSignal ==
    \/ \E w \in Waiters : Fetch(w)
    \/ \E w \in Waiters : Recv(w)
    \/ \E w \in Waiters : Resume(w)
    \/ OtherClose
    \/ OtherSetAndClose
    \/ OtherSetIfOpen
    \/ OtherSet
    \/ OtherReOpen
    \/ OtherOpen

\* A goroutine blocked in a receive on a closed channel is runnable, and the
\* Go scheduler runs every runnable goroutine.
FairSpecSignal ==
    Init /\ [][NextSignal]_vars /\ \A w \in Waiters : WF_vars(Recv(w))

\* ------------------------------------------- readers and SetIfOpen only
\* Readers polling Read while other goroutines update the payload with
\* SetIfOpen only and close with Close / SetAndClose: no Set, ReOpen or Open.
\* calls[r] holds what reader r's latest Read returned.
Readers == Closers

ReaderRead(r) ==
    /\ Read
    /\ calls' = [calls EXCEPT ![r] = Call("Read", Nil, "-", closeVal, isClosed, 0)]
    /\ UNCHANGED <<last, pc, h, obs, mut, cur>>

NextIfOpen ==
    \/ \E r \in Readers : ReaderRead(r)
    \/ OtherSetIfOpen
    \/ OtherClose
    \/ OtherSetAndClose

SpecIfOpen == Init /\ [][NextIfOpen]_vars

\* ------------------------------------------------- a reader of the version
\* A goroutine calling ReadVersion now and then while a caller makes any of
\* the calls, ReadVersion among them: calls[VersionReader] holds what the
\* reader's latest ReadVersion returned, last the caller's latest call.
VersionReader == 1

ReaderReadVersion ==
    /\ ReadVersion
    /\ calls' = [calls EXCEPT ![VersionReader] =
                    Call("ReadVersion", Nil, "-", closeVal, isClosed, version)]
    /\ UNCHANGED <<last, pc, h, obs, mut, cur>>

NextVersion ==
    \/ ReaderReadVersion
    \/ CallReadVersion
    \/ CallClose
    \/ CallSetAndClose
    \/ CallSetIfOpen
    \/ CallSet
    \/ CallReOpen
    \/ CallOpen

SpecVersion == Init /\ [][NextVersion]_vars

\* ------------------------------------------------------ scripted caller
\* One goroutine making a fixed sequence of calls, with any payloads.
ReopenScript ==
    <<"WhenClosed", "Close", "Read", "ReOpen", "WhenClosed", "Read", "Close", "Read">>

Scripts == { <<"Read">>, <<"Close", "Read">>, ReopenScript }

OpsOf(o) == [i \in 1..Len(o) |-> o[i].op]

NextOp(op) ==
    \E s \in Scripts :
        /\ Len(obs) < Len(s)
        /\ \A i \in 1..Len(obs) : obs[i].op = s[i]
        /\ s[Len(obs) + 1] = op

ScriptRead ==
    /\ NextOp("Read")
    /\ Read
    /\ obs' = Append(obs, Call("Read", Nil, "-", closeVal, isClosed, 0))
    /\ UNCHANGED <<last, calls, pc, h, mut, cur>>

ScriptClose ==
    \E cv \in Payloads :
        /\ NextOp("Close")
        /\ Close(cv)
        /\ obs' = Append(obs, Call("Close", cv, CloseRet, Nil, FALSE, 0))
        /\ UNCHANGED <<last, calls, pc, h, mut, cur>>

ScriptReOpen ==
    \E cv \in Payloads :
        /\ NextOp("ReOpen")
        /\ ReOpen(cv)
        /\ obs' = Append(obs, Call("ReOpen", cv, "-", Nil, FALSE, 0))
        /\ UNCHANGED <<last, calls, pc, h, mut, cur>>

ScriptWhenClosed ==
    /\ NextOp("WhenClosed")
    /\ WhenClosed
    /\ obs' = Append(obs, Call("WhenClosed", Nil, "-", Nil, CanRecv(chans, whenClosed), whenClosed))
    /\ UNCHANGED <<last, calls, pc, h, mut, cur>>

NextScript ==
    \/ ScriptRead
    \/ ScriptClose
    \/ ScriptReOpen
    \/ ScriptWhenClosed

SpecScript == Init /\ [][NextScript]_vars

\* ------------------------------------------------ goroutines and f.mut
\* The methods at the grain of the mutex: a goroutine calls a method, blocks
\* in f.mut.Lock(), runs the body (the methods that write several fields, and
\* the reads, in two parts), unlocks and returns.  Which method a goroutine
\* is in makes no difference before it holds the mutex, and its argument
\* makes none before the body stores it: the method is drawn when the
\* goroutine gets the mutex, the argument where the body uses it.
Goroutines == Waiters

Methods == {"Close", "SetAndClose", "Set", "SetIfOpen", "ReOpen",
            "Read", "ReadVersion", "ReadPast", "WhenClosed", "Open"}

\* The calls whose counters stay within MaxVersion and MaxHandles.
CanRun(op) ==
    /\ op \in {"Set", "ReOpen"} => version < MaxVersion
    /\ op \in {"SetIfOpen", "SetAndClose"} => (isClosed \/ version < MaxVersion)
    /\ op \in {"ReOpen", "Open"} => (~isClosed \/ Len(chans) < MaxHandles)

To(g, next) == pc' = [pc EXCEPT ![g] = next]

Enter(g) ==
    /\ pc[g] = "idle"
    /\ fault = NoFault
    /\ To(g, "lock")
    /\ UNCHANGED <<latchVars, last, calls, h, obs, mut, cur>>

\* f.mut.Lock() that does not wait for the mutex to be free.
Lock_NoMutex(g) ==
    /\ pc[g] = "lock"
    /\ \E op \in Methods :
           /\ CanRun(op)
           /\ cur' = [cur EXCEPT ![g] = Call(op, Nil, "-", Nil, FALSE, 0)]
    /\ mut' = g
    /\ To(g, "body")
    /\ UNCHANGED <<latchVars, last, calls, h, obs>>

\* f.mut.Lock()
Lock(g) ==
    /\ pc[g] = "lock"
    /\ mut = 0
    /\ \E op \in Methods :
           /\ CanRun(op)
           /\ cur' = [cur EXCEPT ![g] = Call(op, Nil, "-", Nil, FALSE, 0)]
    /\ mut' = g
    /\ To(g, "body")
    /\ UNCHANGED <<latchVars, last, calls, h, obs>>

\* if f.isClosed { return ErrAlreadyClosed } with the unlock deferred, but
\* returning without it.
EarlyReturn_KeepsLock(g) ==
    /\ To(g, "idle")
    /\ UNCHANGED <<latchVars, cur>>

\* if f.isClosed { return ErrAlreadyClosed }: the deferred unlock runs.
EarlyReturn(g) ==
    /\ To(g, "unlock")
    /\ UNCHANGED <<latchVars, cur>>

\* The body, up to the point where the closed flag and the payload disagree
\* with each other for a method that writes both.
Body(g) ==
    /\ pc[g] = "body"
    /\ \E cv \in Payloads :
       LET op == cur[g].op
       IN  \/ /\ op = "Set"
              /\ Set(cv)
              /\ To(g, "unlock")
              /\ UNCHANGED <<cur, h>>
           \/ /\ op = "SetIfOpen"
              /\ SetIfOpen(cv)
              /\ To(g, "unlock")
              /\ UNCHANGED <<cur, h>>
           \/ /\ op = "Open"
              /\ Open
              /\ To(g, "unlock")
              /\ UNCHANGED <<cur, h>>
           \/ /\ op = "ReadPast"
              /\ ReadPast
              /\ To(g, "unlock")
              /\ UNCHANGED <<cur, h>>
           \/ /\ op = "WhenClosed"
              /\ WhenClosed
              /\ To(g, "unlock")
              /\ UNCHANGED <<cur, h>>
           \/ /\ op \in {"Read", "ReadVersion"}
              /\ cur' = [cur EXCEPT ![g].val = closeVal]
              /\ To(g, "body2")
              /\ UNCHANGED <<latchVars, h>>
           \/ /\ op = "Close"
              /\ IF isClosed
                 THEN EarlyReturn(g)
                 ELSE /\ isClosed' = TRUE
                      /\ To(g, "body2")
                      /\ UNCHANGED cur
                      /\ UNCHANGED <<variant, fault, whenClosed, closeVal, retain,
                                     version, past, chans, firedVer>>
              /\ UNCHANGED h
           \/ /\ op = "SetAndClose"
              /\ IF isClosed
                 THEN EarlyReturn(g)
                 ELSE /\ closeVal' = cv
                      /\ version' = version + 1
                      /\ past' = Record(past, version + 1, cv)
                      /\ To(g, "body2")
                      /\ UNCHANGED cur
                      /\ UNCHANGED <<variant, fault, whenClosed, isClosed, retain,
                                     chans, firedVer>>
              /\ UNCHANGED h
           \/ /\ op = "ReOpen"
              /\ closeVal' = cv
              /\ version' = version + 1
              /\ past' = Record(past, version + 1, cv)
              /\ To(g, IF isClosed THEN "body2" ELSE "unlock")
              /\ UNCHANGED <<variant, fault, whenClosed, isClosed, retain,
                             chans, firedVer, cur, h>>
    /\ UNCHANGED <<last, calls, obs, mut>>

\* The rest of the body of Read, ReadVersion, Close, SetAndClose and ReOpen.
Rest(g) ==
    /\ pc[g] = "body2"
    /\ \E cv \in Payloads :
       LET op == cur[g].op
       IN  \/ /\ op \in {"Read", "ReadVersion"}
              /\ cur' = [cur EXCEPT ![g].closed = isClosed, ![g].n = version]
              /\ UNCHANGED latchVars
           \/ /\ op = "Close"
              /\ IF cv # Nil
                 THEN /\ version < MaxVersion
                      /\ closeVal' = cv
                      /\ version' = version + 1
                      /\ past' = Record(past, version + 1, cv)
                 ELSE UNCHANGED <<closeVal, version, past>>
              /\ chans' = CloseChan(chans, whenClosed)
              /\ fault' = CloseChanFault(chans, whenClosed)
              /\ firedVer' = version'
              /\ UNCHANGED <<variant, whenClosed, isClosed, retain, cur>>
           \/ /\ op = "SetAndClose"
              /\ isClosed' = TRUE
              /\ chans' = CloseChan(chans, whenClosed)
              /\ fault' = CloseChanFault(chans, whenClosed)
              /\ firedVer' = version
              /\ UNCHANGED <<variant, whenClosed, closeVal, retain, version,
                             past, cur>>
           \/ /\ op = "ReOpen"
              /\ isClosed' = FALSE
              /\ chans' = MakeChan(chans)
              /\ whenClosed' = Len(chans) + 1
              /\ firedVer' = 0
              /\ UNCHANGED <<variant, fault, closeVal, retain, version, past, cur>>
    /\ To(g, "unlock")
    /\ UNCHANGED <<last, calls, h, obs, mut>>

\* f.mut.Unlock() and the return.
Unlock(g) ==
    /\ pc[g] = "unlock"
    /\ mut' = 0
    /\ To(g, "idle")
    /\ cur' = [cur EXCEPT ![g] = NoCall]
    /\ UNCHANGED <<latchVars, last, calls, h, obs>>

NextMutex ==
    \/ \E g \in Goroutines : Enter(g)
    \/ \E g \in Goroutines : Lock(g)
    \/ \E g \in Goroutines : Body(g)
    \/ \E g \in Goroutines : Rest(g)
    \/ \E g \in Goroutines : Unlock(g)

\* ch := loquet.NewChan[int](nil), then the goroutines are started.
InitMutex ==
    /\ \E r \in RetainArgs : NewChan(Nil, r)
    /\ InitClients

SpecMutex == InitMutex /\ [][NextMutex]_vars

\* A goroutine that holds the mutex keeps running, and sync.Mutex hands the
\* lock to a goroutine that keeps waiting for it (its starvation mode).
FairSpecMutex ==
    /\ SpecMutex
    /\ \A g \in Goroutines :
           /\ WF_vars(Body(g))
           /\ WF_vars(Rest(g))
           /\ WF_vars(Unlock(g))
           /\ SF_vars(Lock(g))

\* ------------------------------------------------ ReadPast as a function
\* numCopied = copy(d, f.past) depends only on the history slice and on
\* len(d): copy moves the first min(len(d), len(f.past)) elements, so after
\* the call d[:numCopied] is that prefix of the history.
CopyOut(dlen, p) == SubSeq(p, 1, CopyCount(dlen, p))

\* The history slices the mutators keep: VersionVal entries with consecutive
\* versions, oldest first, the last one holding the current version.
HistoryOf(vals, ver) ==
    [i \in 1..Len(vals) |-> [Version |-> ver - Len(vals) + i, Val |-> vals[i]]]

\* The inputs of ReadPast: every such history of up to retain entries.
InitReadPast ==
    /\ \E r \in 1..(MaxRetain + 1), ver \in 0..MaxVersion, k \in 1..(MaxRetain + 1) :
           \E vals \in [1..k -> Payloads] :
               /\ k <= r
               /\ k <= ver + 1
               /\ variant = "Chan"
               /\ whenClosed = 1
               /\ chans = MakeChan(<<>>)
               /\ closeVal = vals[k]
               /\ retain = r
               /\ version = ver
               /\ isClosed = FALSE
               /\ past = HistoryOf(vals, ver)
               /\ fault = NoFault
               /\ firedVer = 0
               /\ last = NoCall
    /\ InitClients

NextReadPast == CallReadPast

SpecReadPast == InitReadPast /\ [][NextReadPast]_vars

\* ============================================= the other latch types
\* The package also holds Loquet[T] (Close returns nothing; closing is final),
\* a Loquet[T] that makes its channel lazily in WhenClosed, and a Chan[T]
\* with CloseWith and the resetting reads.  They use the same fields.
Frame(changed) ==
    /\ UNCHANGED <<variant, retain, past, firedVer>>
    /\ ("fault" \in changed \/ UNCHANGED fault)
    /\ ("whenClosed" \in changed \/ UNCHANGED whenClosed)
    /\ ("closeVal" \in changed \/ UNCHANGED closeVal)
    /\ ("isClosed" \in changed \/ UNCHANGED isClosed)
    /\ ("version" \in changed \/ UNCHANGED version)
    /\ ("chans" \in changed \/ UNCHANGED chans)

\* ---- Loquet[T] with the channel made by NewLoquet
NewLoquet(cv) ==
    /\ variant = "Loquet"
    /\ whenClosed = 1
    /\ chans = MakeChan(<<>>)
    /\ closeVal = cv
    /\ isClosed = FALSE
    /\ retain = 0
    /\ version = 0
    /\ past = <<>>
    /\ fault = NoFault
    /\ firedVer = 0
    /\ last = Call("NewLoquet", cv, "-", Nil, FALSE, 0)

\* Loquet.Close that lets a later close message replace the first one.
Loquet_Close_KeepsLast(cv) ==
    /\ Live("Loquet")
    /\ IF isClosed
       THEN /\ closeVal' = IF cv # Nil THEN cv ELSE closeVal
            /\ Frame({"closeVal"})
       ELSE /\ isClosed' = TRUE
            /\ closeVal' = IF cv # Nil THEN cv ELSE closeVal
            /\ chans' = CloseChan(chans, whenClosed)
            /\ fault' = CloseChanFault(chans, whenClosed)
            /\ Frame({"isClosed", "closeVal", "chans", "fault"})

Loquet_Close(cv) ==
    /\ Live("Loquet")
    /\ IF isClosed
       THEN UNCHANGED latchVars
       ELSE /\ isClosed' = TRUE
            /\ closeVal' = IF cv # Nil THEN cv ELSE closeVal
            /\ chans' = CloseChan(chans, whenClosed)
            /\ fault' = CloseChanFault(chans, whenClosed)
            /\ Frame({"isClosed", "closeVal", "chans", "fault"})

\* Loquet.Set that reopens a closed latch.
Loquet_Set_Reopens(cv) ==
    /\ Live("Loquet")
    /\ closeVal' = cv
    /\ isClosed' = FALSE
    /\ Frame({"closeVal", "isClosed"})

Loquet_Set(cv) ==
    /\ Live("Loquet")
    /\ closeVal' = cv
    /\ Frame({"closeVal"})

Loquet_Read ==
    /\ Live("Loquet")
    /\ UNCHANGED latchVars

Loquet_WhenClosed ==
    /\ Live("Loquet")
    /\ UNCHANGED latchVars

\* ---- Loquet[T] with the channel made lazily by WhenClosed
NewLazyLoquet(cv) ==
    /\ variant = "LazyLoquet"
    /\ whenClosed = 0
    /\ chans = <<>>
    /\ closeVal = cv
    /\ isClosed = FALSE
    /\ retain = 0
    /\ version = 0
    /\ past = <<>>
    /\ fault = NoFault
    /\ firedVer = 0
    /\ last = Call("NewLoquet", cv, "-", Nil, FALSE, 0)

LazyLoquet_Close(cv) ==
    /\ Live("LazyLoquet")
    /\ IF isClosed
       THEN UNCHANGED latchVars
       ELSE /\ isClosed' = TRUE
            /\ closeVal' = IF cv # Nil THEN cv ELSE closeVal
            /\ chans' = CloseChan(chans, whenClosed)
            /\ fault' = CloseChanFault(chans, whenClosed)
            /\ Frame({"isClosed", "closeVal", "chans", "fault"})

LazyLoquet_Set(cv) ==
    /\ Live("LazyLoquet")
    /\ closeVal' = cv
    /\ Frame({"closeVal"})

LazyLoquet_SetIfOpen(cv) ==
    /\ Live("LazyLoquet")
    /\ IF isClosed
       THEN UNCHANGED latchVars
       ELSE /\ closeVal' = cv
            /\ Frame({"closeVal"})

LazyLoquet_Read ==
    /\ Live("LazyLoquet")
    /\ UNCHANGED latchVars

LazyLoquet_WhenClosed ==
    /\ Live("LazyLoquet")
    /\ IF whenClosed = 0
       THEN /\ chans' = MakeChan(chans)
            /\ whenClosed' = Len(chans) + 1
            /\ Frame({"chans", "whenClosed"})
       ELSE UNCHANGED latchVars

\* ---- Chan[T] with CloseWith, ReadVersionAndReset and ReadAndReset
NewResetChan(cv) ==
    /\ variant = "ResetChan"
    /\ whenClosed = 1
    /\ chans = MakeChan(<<>>)
    /\ closeVal = cv
    /\ isClosed = FALSE
    /\ retain = 0
    /\ version = 0
    /\ past = <<>>
    /\ fault = NoFault
    /\ firedVer = 0
    /\ last = Call("NewChan", cv, "-", Nil, FALSE, 0)

ResetChan_CloseWith(cv) ==
    /\ Live("ResetChan")
    /\ IF isClosed
       THEN UNCHANGED latchVars
       ELSE /\ version < MaxVersion
            /\ isClosed' = TRUE
            /\ closeVal' = cv
            /\ version' = version + 1
            /\ chans' = CloseChan(chans, whenClosed)
            /\ fault' = CloseChanFault(chans, whenClosed)
            /\ Frame({"isClosed", "closeVal", "version", "chans", "fault"})

ResetChan_Close ==
    /\ Live("ResetChan")
    /\ IF isClosed
       THEN UNCHANGED latchVars
       ELSE /\ isClosed' = TRUE
            /\ chans' = CloseChan(chans, whenClosed)
            /\ fault' = CloseChanFault(chans, whenClosed)
            /\ Frame({"isClosed", "chans", "fault"})

ResetChan_Set(cv) ==
    /\ Live("ResetChan")
    /\ version < MaxVersion
    /\ closeVal' = cv
    /\ version' = version + 1
    /\ Frame({"closeVal", "version"})

ResetChan_SetIfOpen(cv) ==
    /\ Live("ResetChan")
    /\ IF isClosed
       THEN UNCHANGED latchVars
       ELSE /\ version < MaxVersion
            /\ closeVal' = cv
            /\ version' = version + 1
            /\ Frame({"closeVal", "version"})

ResetChan_Read ==
    /\ Live("ResetChan")
    /\ UNCHANGED latchVars

\* ReadVersionAndReset that forgets f.version++.
ResetChan_ReadVersionAndReset_NoBump(cv) ==
    /\ Live("ResetChan")
    /\ isClosed' = FALSE
    /\ closeVal' = cv
    /\ Frame({"isClosed", "closeVal"})

ResetChan_ReadVersionAndReset(cv) ==
    /\ Live("ResetChan")
    /\ version < MaxVersion
    /\ isClosed' = FALSE
    /\ closeVal' = cv
    /\ version' = version + 1
    /\ Frame({"isClosed", "closeVal", "version"})

ResetChan_ReadAndReset(cv) ==
    /\ Live("ResetChan")
    /\ version < MaxVersion
    /\ isClosed' = FALSE
    /\ closeVal' = cv
    /\ version' = version + 1
    /\ Frame({"isClosed", "closeVal", "version"})

ResetChan_WhenClosed ==
    /\ Live("ResetChan")
    /\ UNCHANGED latchVars

\* ---- callers of the other latch types
CallLoquetClose ==
    \E cv \in Payloads :
        /\ Loquet_Close(cv)
        /\ last' = Call("Close", cv, "-", Nil, FALSE, 0)
        /\ UNCHANGED clientVars

CallLoquetSet ==
    \E cv \in Payloads :
        /\ Loquet_Set(cv)
        /\ last' = Call("Set", cv, "-", closeVal, FALSE, 0)
        /\ UNCHANGED clientVars

CallLoquetRead ==
    /\ Loquet_Read
    /\ last' = Call("Read", Nil, "-", closeVal, isClosed, 0)
    /\ UNCHANGED clientVars

CallLoquetWhenClosed ==
    /\ Loquet_WhenClosed
    /\ last' = Call("WhenClosed", Nil, "-", Nil, CanRecv(chans, whenClosed), whenClosed)
    /\ UNCHANGED clientVars

CallLazyLoquetClose ==
    \E cv \in Payloads :
        /\ LazyLoquet_Close(cv)
        /\ last' = Call("Close", cv, "-", Nil, FALSE, 0)
        /\ UNCHANGED clientVars

CallLazyLoquetSet ==
    \E cv \in Payloads :
        /\ LazyLoquet_Set(cv)
        /\ last' = Call("Set", cv, "-", closeVal, FALSE, 0)
        /\ UNCHANGED clientVars

CallLazyLoquetSetIfOpen ==
    \E cv \in Payloads :
        /\ LazyLoquet_SetIfOpen(cv)
        /\ last' = Call("SetIfOpen", cv, "-", closeVal, FALSE, 0)
        /\ UNCHANGED clientVars

CallLazyLoquetRead ==
    /\ LazyLoquet_Read
    /\ last' = Call("Read", Nil, "-", closeVal, isClosed, 0)
    /\ UNCHANGED clientVars

CallLazyLoquetWhenClosed ==
    /\ LazyLoquet_WhenClosed
    /\ last' = Call("WhenClosed", Nil, "-", Nil, CanRecv(chans', whenClosed'), whenClosed')
    /\ UNCHANGED clientVars

CallResetChanCloseWith ==
    \E cv \in Payloads :
        /\ ResetChan_CloseWith(cv)
        /\ last' = Call("CloseWith", cv, CloseRet, Nil, FALSE, 0)
        /\ UNCHANGED clientVars

CallResetChanClose ==
    /\ ResetChan_Close
    /\ last' = Call("Close", Nil, CloseRet, Nil, FALSE, 0)
    /\ UNCHANGED clientVars

CallResetChanSet ==
    \E cv \in Payloads :
        /\ ResetChan_Set(cv)
        /\ last' = Call("Set", cv, "-", closeVal, FALSE, 0)
        /\ UNCHANGED clientVars

CallResetChanSetIfOpen ==
    \E cv \in Payloads :
        /\ ResetChan_SetIfOpen(cv)
        /\ last' = Call("SetIfOpen", cv, "-", closeVal, FALSE, 0)
        /\ UNCHANGED clientVars

CallResetChanRead ==
    /\ ResetChan_Read
    /\ last' = Call("Read", Nil, "-", closeVal, isClosed, 0)
    /\ UNCHANGED clientVars

CallResetChanReadVersionAndReset ==
    \E cv \in Payloads :
        /\ ResetChan_ReadVersionAndReset(cv)
        /\ last' = Call("ReadVersionAndReset", cv, "-", closeVal, FALSE, version)
        /\ UNCHANGED clientVars

CallResetChanReadAndReset ==
    \E cv \in Payloads :
        /\ ResetChan_ReadAndReset(cv)
        /\ last' = Call("ReadAndReset", cv, "-", closeVal, FALSE, 0)
        /\ UNCHANGED clientVars

CallResetChanWhenClosed ==
    /\ ResetChan_WhenClosed
    /\ last' = Call("WhenClosed", Nil, "-", Nil, CanRecv(chans, whenClosed), whenClosed)
    /\ UNCHANGED clientVars

InitVariants ==
    /\ \/ \E cv \in Payloads, r \in RetainArgs : NewChan(cv, r)
       \/ \E cv \in Payloads : NewLoquet(cv)
       \/ \E cv \in Payloads : NewLazyLoquet(cv)
       \/ \E cv \in Payloads : NewResetChan(cv)
    /\ InitClients

NextVariants ==
    \/ CallClose
    \/ CallSetAndClose
    \/ CallSetIfOpen
    \/ CallSet
    \/ CallRead
    \/ CallReadVersion
    \/ CallReadPast
    \/ CallWhenClosed
    \/ CallReOpen
    \/ CallOpen
    \/ CallLoquetClose
    \/ CallLoquetSet
    \/ CallLoquetRead
    \/ CallLoquetWhenClosed
    \/ CallLazyLoquetClose
    \/ CallLazyLoquetSetIfOpen
    \/ CallLazyLoquetSet
    \/ CallLazyLoquetRead
    \/ CallLazyLoquetWhenClosed
    \/ CallResetChanCloseWith
    \/ CallResetChanClose
    \/ CallResetChanSetIfOpen
    \/ CallResetChanSet
    \/ CallResetChanRead
    \/ CallResetChanReadVersionAndReset
    \/ CallResetChanReadAndReset
    \/ CallResetChanWhenClosed

SpecVariants == InitVariants /\ [][NextVariants]_vars

\* --------------------------------- the resetting reads and their reader
\* The Chan with ReadVersionAndReset: one goroutine is the reader, the only
\* one to call the resetting reads; the others close and set.  obs is the
\* log of the calls made so far, in the order they took the mutex: what the
\* reader passed and got back, and for the others the error returned and
\* f.isClosed as the call found it.
Logged(c) ==
    /\ Len(obs) < MaxLog
    /\ obs' = Append(obs, c)
    /\ UNCHANGED <<last, calls, pc, h, mut, cur>>

ReaderReadVersionAndReset ==
    \E cv \in Payloads :
        /\ ResetChan_ReadVersionAndReset(cv)
        /\ Logged(Call("ReadVersionAndReset", cv, "-", closeVal, FALSE, version))

ReaderReadAndReset ==
    \E cv \in Payloads :
        /\ ResetChan_ReadAndReset(cv)
        /\ Logged(Call("ReadAndReset", cv, "-", closeVal, FALSE, 0))

ResetOtherCloseWith ==
    \E cv \in Payloads :
        /\ ResetChan_CloseWith(cv)
        /\ Logged(Call("CloseWith", Nil, CloseRet, Nil, isClosed, 0))

ResetOtherClose ==
    /\ ResetChan_Close
    /\ Logged(Call("Close", Nil, CloseRet, Nil, isClosed, 0))

ResetOtherSet ==
    \E cv \in Payloads :
        /\ ResetChan_Set(cv)
        /\ Logged(Call("Set", Nil, "-", Nil, isClosed, 0))

ResetOtherSetIfOpen ==
    \E cv \in Payloads :
        /\ ResetChan_SetIfOpen(cv)
        /\ Logged(Call("SetIfOpen", Nil, "-", Nil, isClosed, 0))

NextReset ==
    \/ ReaderReadVersionAndReset
    \/ ReaderReadAndReset
    \/ ResetOtherCloseWith
    \/ ResetOtherClose
    \/ ResetOtherSet
    \/ ResetOtherSetIfOpen

InitReset ==
    /\ \E cv \in Payloads : NewResetChan(cv)
    /\ InitClients

SpecReset == InitReset /\ [][NextReset]_vars

\* ================================================================ claims

\* ---- C1 (SpecRace): when every racing Close / SetAndClose call has
\* returned, exactly one returned nil, every other one returned
\* ErrAlreadyClosed, and the stored payload is the winner's payload, or the
\* payload stored before it (the one given to NewChan) if the winner was
\* Close(nil).
AllReturned == \A c \in Closers : calls[c].op # "-"

C1_ExactlyOneCloseWins ==
    AllReturned =>
        \E w \in Closers :
            /\ calls[w].err = NoErr
            /\ \A c \in Closers \ {w} : calls[c].err = ErrAlreadyClosed
            /\ isClosed
            /\ closeVal = IF calls[w].op = "Close" /\ calls[w].arg = Nil
                          THEN last.arg
                          ELSE calls[w].arg

C1_Witness ==
    /\ AllReturned
    /\ \E w \in Closers :
        /\ calls[w].err = NoErr
        /\ calls[w].arg # Nil
        /\ \E c \in Closers \ {w} :
            /\ calls[c].err = ErrAlreadyClosed
            /\ calls[c].arg # Nil
            /\ calls[c].arg # calls[w].arg

\* ---- C2 (Spec): over every sequence of Close, SetAndClose, Set, SetIfOpen,
\* Open and ReOpen calls no channel is closed twice (nor is a nil channel
\* closed): no close-family call panics in close(f.whenClosed).
C2_NoDoubleClose == fault # CloseOfClosed /\ fault # CloseOfNil

C2_Witness ==
    /\ Len(chans) >= 2
    /\ chans[1]
    /\ chans[2]
    /\ last.op = "Close"
    /\ last.err = ErrAlreadyClosed

\* ---- C3 (SpecVariants): a Close, SetAndClose or CloseWith call on a latch
\* that is already closed changes nothing (payload, version, history, closed
\* flag, active channel and the channels' states) whatever payload it is
\* given; Chan's calls return ErrAlreadyClosed and Loquet's just return.
CloseFamily == {"Close", "SetAndClose", "CloseWith"}

C3_ClosedCloseIsNoOp ==
    [][(last'.op \in CloseFamily /\ isClosed) =>
           /\ UNCHANGED <<closeVal, version, past, isClosed, whenClosed, chans, fault>>
           /\ last'.err = IF variant \in {"Chan", "ResetChan"}
                          THEN ErrAlreadyClosed
                          ELSE "-"]_vars

C3_Witness ==
    /\ variant = "Chan"
    /\ last.op = "SetAndClose"
    /\ last.err = ErrAlreadyClosed
    /\ isClosed
    /\ closeVal # Nil
    /\ last.arg # Nil
    /\ last.arg # closeVal

\* ---- C4 (SpecWait): a Read made by a waiter whose receive completed, while
\* the channel it received from is still the latch's active channel, returns
\* isClosed = true, and the payload it returns is the current one, whose
\* version is at least the version stored by the close that fired the channel.
C4_ReadAfterWake ==
    [][\A w \in Waiters :
          (pc[w] = "woken" /\ pc'[w] = "idle" /\ h[w] = whenClosed) =>
              /\ last'.op = "Read"
              /\ last'.closed
              /\ last'.val = closeVal
              /\ version >= firedVer]_vars

C4_Witness ==
    /\ last.op = "Read"
    /\ last.n = whenClosed
    /\ last.closed
    /\ last.val = closeVal
    /\ version > firedVer
    /\ Len(chans) >= 2

\* ---- C5 (FairSpecSignal): every waiter suspended in its receive on a channel
\* that has fired, or on the active channel of a latch that a close has
\* closed, eventually proceeds; this holds for all the waiters on the channel
\* and for one that starts waiting after the firing.
C5_WaitersProceed ==
    \A w \in Waiters :
        (pc[w] = "waiting" /\ (CanRecv(chans, h[w]) \/ (h[w] = whenClosed /\ isClosed)))
            ~> (pc[w] = "woken")

C5_Witness ==
    /\ isClosed
    /\ \A w \in Waiters : pc[w] = "woken" /\ h[w] = whenClosed

\* ---- C6 (SpecScript): Read on a freshly created latch returns (X, false)
\* for the X given to NewChan; Close(nil) then Read returns (X, true);
\* Close(Y) with Y non-nil then Read returns (Y, true).
C6_RoundTrip ==
    /\ (Len(obs) = 1 /\ obs[1].op = "Read") =>
           (obs[1].val = last.arg /\ ~obs[1].closed)
    /\ (Len(obs) = 2 /\ obs[1].op = "Close" /\ obs[2].op = "Read") =>
           /\ obs[1].err = NoErr
           /\ obs[2].closed
           /\ obs[2].val = IF obs[1].arg = Nil THEN last.arg ELSE obs[1].arg

C6_Witness ==
    /\ Len(obs) = 2
    /\ obs[1].op = "Close"
    /\ obs[1].arg = Nil
    /\ obs[2].op = "Read"
    /\ obs[2].val = last.arg
    /\ last.arg # Nil
    /\ obs[2].closed

\* ---- C7 (Spec): version starts at 0, no step decreases it, and every call
\* that replaces the payload (Set, ReOpen, SetIfOpen and SetAndClose on an
\* open latch, Close with a non-nil payload on an open latch) leaves it
\* strictly greater.
ReplacesPayload ==
    \/ last'.op \in {"Set", "ReOpen"}
    \/ last'.op \in {"SetIfOpen", "SetAndClose"} /\ ~isClosed
    \/ last'.op = "Close" /\ ~isClosed /\ last'.arg # Nil

C7_VersionMonotone ==
    /\ version = 0
    /\ [][/\ version' >= version
          /\ ReplacesPayload => version' > version]_vars

C7_Witness ==
    /\ last.op = "ReOpen"
    /\ version = MaxVersion
    /\ Len(chans) >= 2

\* ---- C8 (SpecScript): after NewChan(A) and Close(B), ReOpen(C) makes
\* WhenClosed() return a new channel that is not closed and Read return
\* (C, false); the next Close(D) returns nil and closes that new channel, and
\* Read returns (D, true) (the payload ReOpen stored, if D is nil).
InReopenScript == Len(obs) >= 1 /\ obs[1].op = "WhenClosed"

C8_ReopenScenario ==
    InReopenScript =>
        /\ Len(obs) >= 5 =>
               /\ obs[5].n # obs[1].n
               /\ ~obs[5].closed
               /\ chans[obs[1].n]
        /\ Len(obs) >= 6 =>
               /\ obs[6].val = obs[4].arg
               /\ ~obs[6].closed
        /\ Len(obs) >= 7 =>
               /\ obs[7].err = NoErr
               /\ fault = NoFault
               /\ chans[obs[5].n]
        /\ Len(obs) >= 8 =>
               /\ obs[8].val = IF obs[7].arg = Nil THEN obs[4].arg ELSE obs[7].arg
               /\ obs[8].closed

C8_Witness ==
    /\ Len(obs) = Len(ReopenScript)
    /\ InReopenScript
    /\ last.arg = 1
    /\ obs[2].arg = 2
    /\ obs[3].val = 2
    /\ obs[4].arg = 1
    /\ obs[7].arg = 2
    /\ obs[8].val = 2
    /\ obs[8].closed

\* ---- C9 (Spec): Open on a closed latch installs a channel that was never
\* returned before and is not closed, leaves the fired one closed, and leaves
\* payload, version and history unchanged; and whenever the latch is open its
\* active channel is not closed, so a waiter that fetches it again is held
\* until the next successful close.
C9_OpenFreshHandle ==
    /\ [](fault = NoFault /\ ~isClosed => ~CanRecv(chans, whenClosed))
    /\ [][(last'.op = "Open" /\ isClosed) =>
              /\ ~isClosed'
              /\ whenClosed' \notin DOMAIN chans
              /\ ~CanRecv(chans', whenClosed')
              /\ CanRecv(chans', whenClosed)
              /\ UNCHANGED <<closeVal, version, past>>]_vars

C9_Witness ==
    /\ last.op = "Open"
    /\ ~isClosed
    /\ whenClosed = 2
    /\ chans[1]
    /\ ~chans[2]
    /\ closeVal # Nil
    /\ version > 0

\* ---- C10 (Spec): NewChan(initial, R) with R > 0 returns normally an open
\* latch with version 0, a channel that is not closed, and a history holding
\* exactly the entry (0, initial), so ReadPast into a buffer of length 1
\* returns 1.
C10_NewChanSeedsHistory ==
    (last.op = "NewChan" /\ last.n > 0) =>
        /\ fault = NoFault
        /\ ~isClosed
        /\ version = 0
        /\ ~CanRecv(chans, whenClosed)
        /\ past = <<[Version |-> 0, Val |-> last.arg]>>
        /\ CopyCount(1, past) = 1

\* ---- C11 (Spec): NewChan(initial, R) with R < 0 panics with
\* "retainVersions cannot be negative": the program is then in its fault
\* state, no call on the latch has been made and none is ever made (every
\* step starts from a latch whose retain is not negative).
C11_NegativeRetainPanics ==
    /\ [](retain < 0 => fault = NegativeRetain /\ last.op = "NewChan")
    /\ [][retain >= 0 /\ fault = NoFault]_vars

C11_Witness ==
    /\ retain < 0
    /\ last.op = "NewChan"
    /\ last.n = retain
    /\ last.arg # Nil
    /\ fault = NegativeRetain

\* ---- C12 (Spec): a latch created with retain = R > 0 is usable, its
\* history never holds more than R entries, and once more than R calls have
\* replaced the payload (version = K > R) a ReadPast into a buffer of length
\* at least R returns R, the oldest entry being the one written by the
\* (K-R+1)-th of those calls.
C12_HistoryBound ==
    retain > 0 =>
        /\ fault = NoFault
        /\ Len(past) <= retain
        /\ (last.op = "ReadPast" /\ last.arg >= retain /\ version > retain) =>
               /\ last.n = retain
               /\ past[1].Version = version - retain + 1

\* ---- C13 (Spec): on a latch with retain > 0, in the state after every
\* call (Set, SetIfOpen, Close, SetAndClose, ReOpen, Open) the last history
\* entry is (current version, current payload).
C13_LastEntryIsCurrent ==
    retain > 0 =>
        /\ fault = NoFault
        /\ Len(past) > 0
        /\ past[Len(past)] = [Version |-> version, Val |-> closeVal]

C15_WokenReadIsClosed ==
    [][\A w \in Waiters :
          (pc[w] = "woken" /\ pc'[w] = "idle") =>
              (last'.op = "Read" /\ last'.closed)]_vars

\* ---- C16 (SpecVariants): on the Chan with CloseWith and the resetting
\* reads, over every sequence of Close, CloseWith, Set, SetIfOpen,
\* ReadVersionAndReset and ReadAndReset calls the whenClosed channel is closed
\* at most once: Close and CloseWith never panic.
C16_ResetChanClosedOnce ==
    variant = "ResetChan" => fault # CloseOfClosed

\* ---- C17 (SpecVariants): on the Loquet that makes its channel in
\* WhenClosed, Close returns normally in every order of Close and WhenClosed
\* calls, a Close before the first WhenClosed included: Close never closes a
\* nil channel.
C17_LazyCloseNeverNil ==
    variant = "LazyLoquet" => (fault # CloseOfNil /\ (isClosed => whenClosed # 0))

\* ---- C18 (SpecIfOpen): when the payload is updated with SetIfOpen only
\* (no Set, ReOpen or Open), a closed latch stays closed and its payload
\* never changes again, and any two Reads that returned closed = true, by
\* whichever readers and however interleaved with SetIfOpen, Close and
\* SetAndClose calls, returned the same payload.
C18_SettledAfterClose ==
    /\ [](\A a, b \in Readers :
             (calls[a].op = "Read" /\ calls[a].closed /\
              calls[b].op = "Read" /\ calls[b].closed) =>
                 calls[a].val = calls[b].val)
    /\ [][isClosed => (isClosed' /\ closeVal' = closeVal)]_vars

C18_Witness ==
    /\ isClosed
    /\ version >= 2
    /\ closeVal # Nil
    /\ closeVal # last.arg
    /\ \A r \in Readers :
           calls[r].op = "Read" /\ calls[r].closed /\ calls[r].val = closeVal

\* ---- C19 (FairSpecSignal): the active channel is replaced only while the
\* latch is closed, and by a channel that was never used before; so every
\* channel that is no longer the active one is closed, a closed channel stays
\* closed, and a waiter in its receive on a channel fetched before a reopen
\* can always proceed.
C19_RetiredHandlesFired ==
    /\ [](\A c \in DOMAIN chans : c # whenClosed => chans[c])
    /\ [](\A w \in Waiters :
             (pc[w] = "waiting" /\ h[w] # whenClosed) => CanRecv(chans, h[w]))
    /\ [][/\ \A c \in DOMAIN chans : chans[c] => chans'[c]
          /\ whenClosed' # whenClosed =>
                 /\ isClosed
                 /\ chans[whenClosed]
                 /\ whenClosed' \notin DOMAIN chans]_vars

C19_Witness ==
    /\ Len(chans) >= 3
    /\ ~isClosed
    /\ \A w \in Waiters : pc[w] = "waiting"
    /\ \E w \in Waiters : h[w] = 1
    /\ \E w \in Waiters : h[w] = 2
    /\ chans[1]
    /\ chans[2]

\* ---- C20 as stated (FairSpecSignal): a channel retired by Open / ReOpen
\* is not closed and is never closed later, and a waiter still in its
\* receive on it cannot proceed.
C20_StaleHandleUnfired ==
    /\ \A c \in DOMAIN chans : c # whenClosed => ~chans[c]
    /\ \A w \in Waiters :
           (pc[w] = "waiting" /\ h[w] # whenClosed) => ~CanRecv(chans, h[w])

\* ---- C20 amended (FairSpecSignal): a waiter still in its receive on a
\* channel that Open / ReOpen has retired is released: its receive
\* eventually completes (the retired channel is closed), it is not parked.
C20_StaleWaiterReleased ==
    \A w \in Waiters :
        (pc[w] = "waiting" /\ h[w] # whenClosed) ~> (pc[w] = "woken")

C20_Witness ==
    /\ ~isClosed
    /\ \E w \in Waiters :
           /\ pc[w] = "woken"
           /\ h[w] # whenClosed
           /\ ~chans[whenClosed]

\* ---- C21 (SpecVariants): on both Loquet types no Close, Set, SetIfOpen,
\* Read or WhenClosed call takes a closed latch back to open, and a Read
\* returns the flag as it is; so once a Read has returned isClosed = true
\* every later Read returns isClosed = true.
NonReopenable == {"Loquet", "LazyLoquet"}

C21_ClosedIsTerminal ==
    /\ []((variant \in NonReopenable /\ last.op = "Read") => last.closed = isClosed)
    /\ [][(variant \in NonReopenable /\ isClosed) => isClosed']_vars

C21_Witness ==
    /\ variant = "Loquet"
    /\ last.op = "Read"
    /\ last.closed
    /\ last.val = Nil
    /\ chans[whenClosed]

\* ---- C22 (FairSpecMutex): with goroutines calling any Chan methods at the
\* same time, the mutex is held exactly by the one goroutine that is inside
\* a method body (so no path returns with the mutex held), and every
\* goroutine that has called a method, whichever it is, eventually returns
\* from it.
InMethod(g) == pc[g] \in {"body", "body2", "unlock"}

C22_NoDeadlock ==
    /\ [](\A g \in Goroutines : InMethod(g) <=> mut = g)
    /\ \A g \in Goroutines : (pc[g] = "lock") ~> (pc[g] = "idle")

C22_Witness ==
    /\ \E g \in Goroutines :
           /\ pc[g] = "body2"
           /\ cur[g].op = "Close"
           /\ isClosed
           /\ ~chans[whenClosed]
    /\ \E g \in Goroutines : pc[g] = "lock"

\* ---- C23 (SpecMutex): when a Read / ReadVersion has read its last field,
\* the payload, closed flag and version it is about to return are the
\* latch's fields at that instant, and no other goroutine is inside a method
\* body at that instant: the snapshot is the state between two whole
\* operations, never one where a SetAndClose, Close(p) or ReOpen(p) has
\* written some of its fields and not the others.
C23_ReadsAreSnapshots ==
    \A g \in Goroutines :
        (pc[g] = "unlock" /\ cur[g].op \in {"Read", "ReadVersion"}) =>
            /\ cur[g].val = closeVal
            /\ cur[g].closed = isClosed
            /\ cur[g].n = version
            /\ \A o \in Goroutines \ {g} : ~InMethod(o)

C23_Witness ==
    \E g \in Goroutines :
        /\ pc[g] = "unlock"
        /\ cur[g].op = "ReadVersion"
        /\ cur[g].closed
        /\ cur[g].val # Nil
        /\ cur[g].n >= 2
        /\ Len(chans) >= 2
        /\ \A o \in Goroutines \ {g} : pc[o] = "lock"

\* ---- C24 (Spec): Close(nil) on an open Chan returns nil, sets the closed
\* flag and closes the active channel, and leaves the payload, the version,
\* the history and the identity of the active channel unchanged.
C24_CloseNilKeepsPayload ==
    [][(last'.op = "Close" /\ last'.arg = Nil /\ ~isClosed) =>
           /\ UNCHANGED <<closeVal, version, past, whenClosed, retain>>
           /\ isClosed'
           /\ ~CanRecv(chans, whenClosed)
           /\ CanRecv(chans', whenClosed)
           /\ last'.err = NoErr]_vars

C24_Witness ==
    /\ last.op = "Close"
    /\ last.arg = Nil
    /\ last.err = NoErr
    /\ isClosed
    /\ closeVal # Nil
    /\ version = 1
    /\ chans[whenClosed]

\* ---- C25 (Spec): Set(p), on an open and on a closed Chan alike, stores p,
\* adds exactly one to the version, returns the payload stored before the
\* call, and leaves the closed flag, the active channel and every channel's
\* state unchanged.
C25_SetReplacesAlways ==
    [][last'.op = "Set" =>
           /\ closeVal' = last'.arg
           /\ version' = version + 1
           /\ last'.val = closeVal
           /\ UNCHANGED <<isClosed, whenClosed, chans, fault>>]_vars

C25_Witness ==
    /\ last.op = "Set"
    /\ isClosed
    /\ chans[whenClosed]
    /\ closeVal = last.arg
    /\ last.val # Nil
    /\ last.val # last.arg

\* ---- C26 (Spec): SetIfOpen(p) on a closed Chan changes nothing and
\* returns the stored payload; on an open Chan the step is exactly a Set(p)
\* step and returns what Set(p) returns, the payload stored before.
C26_SetIfOpenFrame ==
    [][last'.op = "SetIfOpen" =>
           /\ last'.val = closeVal
           /\ isClosed => UNCHANGED latchVars
           /\ ~isClosed => Set(last'.arg)]_vars

C26_Witness ==
    /\ last.op = "SetIfOpen"
    /\ isClosed
    /\ last.arg # Nil
    /\ last.val = closeVal
    /\ closeVal # Nil
    /\ last.arg # closeVal

\* ---- C27 (SpecVariants): SetAndClose(p) and CloseWith(p) on an open latch
\* return nil, store p even when p is nil, add one to the version, set the
\* closed flag and close the active channel, all in the one step; and a Read
\* returns the stored payload and flag, so after SetAndClose(nil) it returns
\* (nil, true).
C27_SetAndCloseStoresNil ==
    /\ []((variant \in {"Chan", "ResetChan"} /\ last.op = "Read") =>
              (last.val = closeVal /\ last.closed = isClosed))
    /\ [][(last'.op \in {"SetAndClose", "CloseWith"} /\ ~isClosed) =>
              /\ closeVal' = last'.arg
              /\ version' = version + 1
              /\ isClosed'
              /\ whenClosed' = whenClosed
              /\ ~CanRecv(chans, whenClosed)
              /\ CanRecv(chans', whenClosed)
              /\ fault' = NoFault
              /\ last'.err = NoErr]_vars

\* ---- C28 (Spec): Open() on a Chan that is open changes nothing: the
\* active channel is the same one, not closed, and payload, version, history
\* and closed flag are unchanged.
C28_OpenOnOpenIsNoOp ==
    [][(last'.op = "Open" /\ ~isClosed) =>
           /\ UNCHANGED latchVars
           /\ ~CanRecv(chans', whenClosed')]_vars

C28_Witness ==
    /\ last.op = "Open"
    /\ ~isClosed
    /\ Len(chans) = 1
    /\ closeVal # Nil
    /\ version >= 1

\* ---- C29 (Spec): ReOpen(p) on an open Chan is exactly a Set(p) step; on a
\* closed Chan it stores p, adds one to the version, records the history
\* entry once, clears the closed flag and installs a channel that is new and
\* not closed, leaving the old one closed.
C29_ReOpenIsSetWhenOpen ==
    [][last'.op = "ReOpen" =>
           /\ ~isClosed => Set(last'.arg)
           /\ isClosed =>
                  /\ closeVal' = last'.arg
                  /\ version' = version + 1
                  /\ past' = Record(past, version + 1, last'.arg)
                  /\ ~isClosed'
                  /\ whenClosed' \notin DOMAIN chans
                  /\ ~CanRecv(chans', whenClosed')
                  /\ CanRecv(chans', whenClosed)]_vars

C29_Witness ==
    /\ last.op = "ReOpen"
    /\ ~isClosed
    /\ Len(chans) = 1
    /\ closeVal = last.arg
    /\ closeVal # Nil
    /\ version >= 2

\* ---- C30 (Spec): on a Chan created with retain = 0 the history is empty
\* in every state, and ReadPast returns 0 and copies nothing, whatever the
\* length of the buffer.
C30_NoHistoryWhenRetainZero ==
    retain = 0 =>
        /\ past = <<>>
        /\ last.op = "ReadPast" =>
               (last.n = 0 /\ CopyOut(last.arg, past) = <<>>)

C30_Witness ==
    /\ retain = 0
    /\ last.op = "ReadPast"
    /\ last.arg > 0
    /\ last.n = 0
    /\ version >= 2
    /\ isClosed

\* ---- C31 (SpecReset): ReadVersionAndReset(n) returns the payload and the
\* version stored when it is called, stores n, adds one to the version and
\* marks the latch open, all in the one step; so of two ReadVersionAndReset
\* calls of the one reader with none between them, the second returns the
\* first's version plus one exactly when no call between them replaced the
\* payload, and more than that otherwise.
Replacing(c) ==
    \/ c.op \in {"Set", "ReadAndReset"}
    \/ c.op = "SetIfOpen" /\ ~c.closed
    \/ c.op = "CloseWith" /\ c.err = NoErr

Between(i, j) == {k \in (i + 1)..(j - 1) : Replacing(obs[k])}

Consecutive(i, j) ==
    /\ i < j
    /\ obs[i].op = "ReadVersionAndReset"
    /\ obs[j].op = "ReadVersionAndReset"
    /\ \A k \in (i + 1)..(j - 1) : obs[k].op # "ReadVersionAndReset"

C31_ResetVersions ==
    /\ [](\A i, j \in 1..Len(obs) :
              Consecutive(i, j) =>
                  /\ (obs[j].n = obs[i].n + 1) <=> (Between(i, j) = {})
                  /\ (Between(i, j) # {}) => (obs[j].n > obs[i].n + 1))
    /\ [][(Len(obs') > Len(obs) /\ obs'[Len(obs')].op = "ReadVersionAndReset") =>
              /\ obs'[Len(obs')].val = closeVal
              /\ obs'[Len(obs')].n = version
              /\ closeVal' = obs'[Len(obs')].arg
              /\ version' = version + 1
              /\ ~isClosed']_vars

C31_Witness ==
    /\ Len(obs) >= 3
    /\ Consecutive(1, 3)
    /\ obs[2].op = "CloseWith"
    /\ obs[2].err = NoErr
    /\ obs[3].n = obs[1].n + 2
    /\ obs[3].val # obs[3].arg
    /\ obs[1].val # obs[1].arg
    /\ ~isClosed

\* ---- C32 (Spec): between the calls on a Chan, the active channel is
\* closed exactly when isClosed is true and it is one of the channels made;
\* the Chan starts with one channel, and a call makes a channel, one,
\* exactly when it takes the Chan from closed to open: the channels made are
\* one more than the closed-to-open transitions.
C32_OneHandlePerReopen ==
    /\ Len(chans) = 1
    /\ [](/\ whenClosed \in 1..Len(chans)
          /\ CanRecv(chans, whenClosed) <=> isClosed)
    /\ [][Len(chans') = Len(chans) + (IF isClosed /\ ~isClosed' THEN 1 ELSE 0)]_vars

C32_Witness ==
    /\ Len(chans) = 3
    /\ whenClosed = 3
    /\ isClosed
    /\ CanRecv(chans, whenClosed)
    /\ last.op \in {"Close", "SetAndClose"}

\* ---- C33 (SpecVariants): on the Chan with the resetting reads, whenever
\* Read reports isClosed = false the channel that WhenClosed() returns is
\* not closed, so a receive from it blocks: after a reset of a closed Chan a
\* waiter is held until the next Close or CloseWith.
C33_OpenReadMeansOpenChannel ==
    (variant = "ResetChan" /\ last.op = "Read" /\ ~last.closed) =>
        ~CanRecv(chans, whenClosed)

\* ---- C34 (SpecVersion): the version of a Chan counts the calls that
\* replaced its payload: it starts at 0, a call that stores its argument
\* (Set, ReOpen, SetIfOpen and SetAndClose on an open Chan, Close(p) with p
\* not nil on an open Chan) adds one, and every other call (Close(nil), Open,
\* a rejected close, SetIfOpen on a closed Chan, the reads) leaves version
\* and payload alone; so two ReadVersion results with the same version carry
\* the same payload.
Replaces(c, closed) ==
    \/ c.op \in {"Set", "ReOpen"}
    \/ c.op \in {"SetIfOpen", "SetAndClose"} /\ ~closed
    \/ c.op = "Close" /\ ~closed /\ c.arg # Nil

C34_VersionCountsPayloads ==
    /\ version = 0
    /\ []((/\ calls[VersionReader].op = "ReadVersion"
           /\ last.op = "ReadVersion"
           /\ calls[VersionReader].n = last.n) =>
              calls[VersionReader].val = last.val)
    /\ [][IF calls' = calls /\ Replaces(last', isClosed)
          THEN version' = version + 1 /\ closeVal' = last'.arg
          ELSE version' = version /\ closeVal' = closeVal]_vars

C34_Witness ==
    /\ calls[VersionReader].op = "ReadVersion"
    /\ last.op = "ReadVersion"
    /\ calls[VersionReader].n = 2
    /\ last.n = 2
    /\ last.val # Nil
    /\ ~calls[VersionReader].closed
    /\ last.closed
    /\ Len(chans) = 2

\* ---- C35 (Spec): on a latch with retain = R > 0 the history is a run of
\* consecutive versions ending at the current one: each entry's version is
\* one more than that of the entry before it, the last entry has the current
\* version, and there are min(version + 1, R) entries.
C35_HistoryIsConsecutiveRun ==
    retain > 0 =>
        /\ fault = NoFault
        /\ Len(past) = (IF version + 1 < retain THEN version + 1 ELSE retain)
        /\ past[Len(past)].Version = version
        /\ \A i \in 1..(Len(past) - 1) : past[i + 1].Version = past[i].Version + 1

====
